---- MODULE Spec2Model ----
(***************************************************************************)
(* Vehicle Buyer Prospect Finder: the ProspectFinder store                 *)
(* (src/prospect_finder.py), the data sources that feed it                 *)
(* (src/yellowpages_scraper.py, src/dmv_integration.py) and the            *)
(* orchestration in src/main.py.                                           *)
(*                                                                         *)
(* A pandas DataFrame is a set of column names and a sequence of rows; a   *)
(* row gives a cell for every column name of the universe Cols, the cell   *)
(* being NaN when the frame lacks the column or the value is missing.      *)
(* The store's index is always unique (it comes from                       *)
(* concat(ignore_index=True) and is only permuted by sort_values), so      *)
(* label-based assignment through df.loc behaves positionally and the      *)
(* index is not represented.  Text is a sequence of one-character          *)
(* strings, so that substring search and lower-casing are computed.        *)
(***************************************************************************)
EXTENDS Integers, Sequences, FiniteSets, TLC

VARIABLES prospects, ret, call, merged, files, pc, args, locs, dmv, failures

vars == <<prospects, ret, call, merged, files, pc, args, locs, dmv, failures>>

(* ------------------------------ bounds -------------------------------- *)

\* largest number of records the store is allowed to hold
MaxStore == 4

\* largest number of files the output directory is allowed to hold
MaxFiles == 1

(* ------------------------------- text --------------------------------- *)

s_YellowPages == <<"Y","e","l","l","o","w","P","a","g","e","s">>
s_MOCK_DMV == <<"M","O","C","K","_","D","M","V">>
s_fl_dmv == <<"f","l","_","d","m","v">>
n_AbcAutoBodyShop == <<"A","B","C"," ","A","u","t","o"," ","B","o","d","y"," ","S","h","o","p">>
n_WeBuyCars == <<"W","e"," ","B","u","y"," ","C","a","r","s">>
n_SmithMotors == <<"S","m","i","t","h"," ","M","o","t","o","r","s">>
n_BuyerRepair == <<"B","u","y","e","r"," ","R","E","P","A","I","R">>
n_Diner == <<"D","i","n","e","r">>
n_Sample1 == <<"S","a","m","p","l","e"," ","B","u","s","i","n","e","s","s"," ","1">>
n_Sample2 == <<"S","a","m","p","l","e"," ","B","u","s","i","n","e","s","s"," ","2">>
p_5550100 == <<"5","5","5","-","0","1","0","0">>
p_5550199 == <<"5","5","5","-","0","1","9","9">>
a_1MainSt == <<"1"," ","M","a","i","n"," ","S","t">>
w_site == <<"h","t","t","p",":","/","/","a",".","c","o">>
v_Commercial == <<"C","o","m","m","e","r","c","i","a","l">>
d_20240115 == <<"2","0","2","4","-","0","1","-","1","5">>
d_20240220 == <<"2","0","2","4","-","0","2","-","2","0">>
l_Jax == <<"J","a","c","k","s","o","n","v","i","l","l","e",",","F","L">>
l_StAug == <<"S","a","i","n","t"," ","A","u","g","u","s","t","i","n","e",",","F","L">>
k_auto == <<"a","u","t","o">>
k_car == <<"c","a","r">>
k_dealer == <<"d","e","a","l","e","r">>
k_motors == <<"m","o","t","o","r","s">>
k_automotive == <<"a","u","t","o","m","o","t","i","v","e">>
k_buyer == <<"b","u","y","e","r">>
k_cash_for_cars == <<"c","a","s","h"," ","f","o","r"," ","c","a","r","s">>
k_we_buy == <<"w","e"," ","b","u","y">>
k_wholesale == <<"w","h","o","l","e","s","a","l","e">>
k_body_shop == <<"b","o","d","y"," ","s","h","o","p">>
k_collision == <<"c","o","l","l","i","s","i","o","n">>
k_repair == <<"r","e","p","a","i","r">>
k_DMV == <<"D","M","V">>
UpperChars == <<"A","B","C","D","E","F","G","H","I","J","K","L","M","N","O","P","Q","R","S","T","U","V","W","X","Y","Z">>
LowerChars == <<"a","b","c","d","e","f","g","h","i","j","k","l","m","n","o","p","q","r","s","t","u","v","w","x","y","z">>

\* str.lower() on one character
LowerChar(c) ==
    IF \E i \in 1..Len(UpperChars) : UpperChars[i] = c
    THEN LowerChars[CHOOSE i \in 1..Len(UpperChars) : UpperChars[i] = c]
    ELSE c

\* str.lower()
Lower(s) == [i \in 1..Len(s) |-> LowerChar(s[i])]

\* sub in s: s has sub as a contiguous substring
Contains(s, sub) ==
    \E i \in 0..(Len(s) - Len(sub)) : SubSeq(s, i + 1, i + Len(sub)) = sub

\* Series.str.contains('k1|k2|...'): the keywords hold no regex
\* metacharacter, so the alternation matches when some keyword is a substring
ContainsAny(s, keywords) == \E k \in keywords : Contains(s, k)

(* ------------------------------- cells -------------------------------- *)

NaN == [kind |-> "nan", str |-> <<>>, num |-> 0]
Str(s) == [kind |-> "str", str |-> s, num |-> 0]
Num(n) == [kind |-> "int", str |-> <<>>, num |-> n]

\* Series.notna() on one cell
notna(c) == c.kind /= "nan"

(* ------------------------------ frames -------------------------------- *)

Cols == {"name", "phone", "address", "website", "category", "source",
         "owner_name", "vehicle_type", "registration_date", "location",
         "prospect_type", "score"}

\* a row: NaN in every column but those given
MkRow(f) == [c \in Cols |-> IF c \in DOMAIN f THEN f[c] ELSE NaN]

\* pd.DataFrame(): no columns, no rows
EmptyFrame == [columns |-> {}, rows |-> <<>>]

\* DataFrame.empty: some axis has length 0
empty(df) == df.columns = {} \/ Len(df.rows) = 0

\* len(df)
len(df) == Len(df.rows)

(* --------------------------- record batches --------------------------- *)

YPCols == {"name", "phone", "address", "website", "category", "source"}

\* the dictionary _parse_listing builds: every field a string, '' when the
\* element is not in the listing
YPRow(name, phone, address, website) ==
    MkRow(("name" :> Str(name)) @@ ("phone" :> Str(phone)) @@
          ("address" :> Str(address)) @@ ("website" :> Str(website)) @@
          ("category" :> Str(<<>>)) @@ ("source" :> Str(s_YellowPages)))

MockCols == {"owner_name", "vehicle_type", "registration_date", "location",
             "source"}

\* MockDMVIntegration.query_vehicle_registrations(location)
MockFrame(location) ==
    [columns |-> MockCols,
     rows |-> << MkRow(("owner_name" :> Str(n_Sample1)) @@
                       ("vehicle_type" :> Str(v_Commercial)) @@
                       ("registration_date" :> Str(d_20240115)) @@
                       ("location" :> Str(location)) @@
                       ("source" :> Str(s_MOCK_DMV))),
                 MkRow(("owner_name" :> Str(n_Sample2)) @@
                       ("vehicle_type" :> Str(v_Commercial)) @@
                       ("registration_date" :> Str(d_20240220)) @@
                       ("location" :> Str(location)) @@
                       ("source" :> Str(s_MOCK_DMV))) >>]

\* directory batches as search_multiple_locations returns them
YPFrameA ==
    [columns |-> YPCols,
     rows |-> << YPRow(n_AbcAutoBodyShop, p_5550100, a_1MainSt, <<>>) >>]

YPFrameB ==
    [columns |-> YPCols,
     rows |-> << YPRow(n_WeBuyCars, <<>>, <<>>, w_site),
                 YPRow(n_SmithMotors, p_5550199, a_1MainSt, w_site) >>]

\* records of an authorized registration API (DataFrame(data['records'])):
\* any columns, missing values, a score the source supplied
RegFrame ==
    [columns |-> {"name", "phone", "address", "website", "source", "score"},
     rows |-> << MkRow(("name" :> Str(<<>>)) @@ ("phone" :> Str(p_5550100)) @@
                       ("address" :> Str(a_1MainSt)) @@
                       ("source" :> Str(s_MOCK_DMV)) @@ ("score" :> Num(99))),
                 MkRow(("name" :> Str(n_BuyerRepair)) @@
                       ("source" :> Str(s_fl_dmv)) @@ ("score" :> Num(99))) >>]

\* a batch that repeats a (name, phone) pair, the phone missing
DupFrame ==
    [columns |-> {"name", "phone"},
     rows |-> << MkRow(("name" :> Str(n_Diner))),
                 MkRow(("name" :> Str(n_Diner))) >>]

\* a record of an earlier run's export read back: it carries the
\* prospect_type that run computed, and no phone
LabelledFrame ==
    [columns |-> {"name", "source", "prospect_type"},
     rows |-> << MkRow(("name" :> Str(n_SmithMotors)) @@
                       ("source" :> Str(s_MOCK_DMV)) @@
                       ("prospect_type" :> Str(<<"A","u","t","o"," ","D","e","a","l","e","r">>))) >>]

\* a frame with columns and no row
NoRowsFrame == [columns |-> YPCols, rows |-> <<>>]

Batches == {YPFrameA, YPFrameB, MockFrame(l_Jax), RegFrame, DupFrame,
            LabelledFrame, EmptyFrame, NoRowsFrame}

(* ------------------------------- store -------------------------------- *)

\* a concat that puts the incoming rows first
concat_prepend(a, b) ==
    [columns |-> a.columns \cup b.columns, rows |-> b.rows \o a.rows]

\* pd.concat([a, b], ignore_index=True): the union of the columns, a's rows
\* then b's rows, NaN where a frame lacks a column
concat(a, b) ==
    [columns |-> a.columns \cup b.columns, rows |-> a.rows \o b.rows]

\* results of a call
NoneRet == [kind |-> "None"]
FrameRet(df) == [kind |-> "frame", df |-> df]
Raised(exc) == [kind |-> "raised", exc |-> exc]

\* the call just made: its name and its arguments
Call(name, arg) == [name |-> name, arg |-> arg]

NoCall == Call("none", <<>>)

\* the store before the latest consecutive merges of non-empty batches, and
\* the last two of those batches
NoMerges(df) == [base |-> df, batches |-> <<>>]

Merged(df) ==
    IF empty(df) THEN NoMerges(prospects)
    ELSE IF Len(merged.batches) <= 1
    THEN [base |-> merged.base, batches |-> Append(merged.batches, df)]
    ELSE [base |-> [columns |-> merged.base.columns \cup Head(merged.batches).columns,
                    rows |-> merged.base.rows \o Head(merged.batches).rows],
          batches |-> Append(Tail(merged.batches), df)]

\* bookkeeping shared by the methods that leave the store alone
Record(name, arg) ==
    /\ call' = Call(name, arg)
    /\ merged' = NoMerges(prospects)
    /\ UNCHANGED <<pc, args, locs, dmv, failures>>

\* the store after add_yellowpages_data(df) or add_dmv_data(df): an empty
\* batch is logged and dropped, any other is appended
after_add(store, df) == IF empty(df) THEN store ELSE concat(store, df)

add_yellowpages_data ==
    \E df \in Batches :
        /\ pc = "api"
        /\ len(prospects) + len(df) <= MaxStore
        /\ prospects' = after_add(prospects, df)
        /\ ret' = NoneRet
        /\ call' = Call("add_yellowpages_data", df)
        /\ merged' = Merged(df)
        /\ UNCHANGED <<files, pc, args, locs, dmv, failures>>

add_dmv_data ==
    \E df \in Batches :
        /\ pc = "api"
        /\ len(prospects) + len(df) <= MaxStore
        /\ prospects' = after_add(prospects, df)
        /\ ret' = NoneRet
        /\ call' = Call("add_dmv_data", df)
        /\ merged' = Merged(df)
        /\ UNCHANGED <<files, pc, args, locs, dmv, failures>>

\* DataFrame.drop_duplicates(subset, keep='first'): an empty frame is copied
\* before the subset is looked at; a subset column the frame lacks raises
\* KeyError; missing values compare equal to each other
drop_duplicates_raises(df, subset) ==
    ~empty(df) /\ ~(subset \subseteq df.columns)

SameKey(r1, r2, subset) == \A c \in subset : r1[c] = r2[c]

\* positions kept by keep='first'
FirstOccurrences(rows, subset) ==
    {i \in 1..Len(rows) : \A j \in 1..(i - 1) : ~SameKey(rows[j], rows[i], subset)}

RECURSIVE KeepRows(_, _, _)
KeepRows(rows, keep, i) ==
    IF i > Len(rows) THEN <<>>
    ELSE (IF i \in keep THEN <<rows[i]>> ELSE <<>>) \o KeepRows(rows, keep, i + 1)

drop_duplicates(df, subset) ==
    IF empty(df) THEN df
    ELSE [columns |-> df.columns,
          rows |-> KeepRows(df.rows, FirstOccurrences(df.rows, subset), 1)]

Criteria == {"None", "empty", "min_records"}

\* a filter that keeps its result as the store
filter_prospects_in_place ==
    \E criteria \in {"min_records"} :
        /\ pc = "api"
        /\ ~drop_duplicates_raises(prospects, {"name", "phone"})
        /\ ret' = FrameRet(drop_duplicates(prospects, {"name", "phone"}))
        /\ prospects' = drop_duplicates(prospects, {"name", "phone"})
        /\ call' = Call("filter_prospects", criteria)
        /\ merged' = NoMerges(prospects')
        /\ UNCHANGED <<files, pc, args, locs, dmv, failures>>

filter_result(df, criteria) ==
    IF criteria = "min_records"
    THEN (IF drop_duplicates_raises(df, {"name", "phone"})
          THEN Raised("KeyError")
          ELSE FrameRet(drop_duplicates(df, {"name", "phone"})))
    ELSE FrameRet(df)

filter_prospects ==
    \E criteria \in Criteria :
        /\ pc = "api"
        /\ ret' = filter_result(prospects, criteria)
        /\ Record("filter_prospects", criteria)
        /\ UNCHANGED <<prospects, files>>

(* ------------------------------- scorer ------------------------------- *)

\* df[col] = value
SetColumn(df, col, value) ==
    [columns |-> df.columns \cup {col},
     rows |-> [i \in 1..Len(df.rows) |-> [df.rows[i] EXCEPT ![col] = value]]]

\* df.loc[mask, 'score'] += w
AddScore(df, mask, w) ==
    [columns |-> df.columns,
     rows |-> [i \in 1..Len(df.rows) |->
                 IF mask[i]
                 THEN [df.rows[i] EXCEPT !["score"] = Num(@.num + w)]
                 ELSE df.rows[i]]]

\* df[col].notna()
NotnaMask(df, col) == [i \in 1..Len(df.rows) |-> notna(df.rows[i][col])]

\* df['source'].str.contains('DMV', na=False)
DmvMask(df) ==
    [i \in 1..Len(df.rows) |->
        /\ df.rows[i]["source"].kind = "str"
        /\ Contains(df.rows[i]["source"].str, k_DMV)]

PhoneWeight == 10
WebsiteWeight == 5
AddressWeight == 5
SourceWeight == 20

\* if col in df.columns: df.loc[df[col].notna(), 'score'] += w
ScoreCompleteness(df, col, w) ==
    IF col \in df.columns THEN AddScore(df, NotnaMask(df, col), w) ELSE df

\* a source rule that ignores case
ScoreSourceAnyCase(df) ==
    IF "source" \in df.columns
    THEN AddScore(df, [i \in 1..Len(df.rows) |->
                         /\ df.rows[i]["source"].kind = "str"
                         /\ Contains(Lower(df.rows[i]["source"].str), Lower(k_DMV))],
                  SourceWeight)
    ELSE df

ScoreSource(df) ==
    IF "source" \in df.columns THEN AddScore(df, DmvMask(df), SourceWeight) ELSE df

\* score_prospects up to the sort
Scored(df) ==
    ScoreSource(
      ScoreCompleteness(
        ScoreCompleteness(
          ScoreCompleteness(SetColumn(df, "score", Num(0)),
                            "phone", PhoneWeight),
          "website", WebsiteWeight),
        "address", AddressWeight))

\* the orderings of a set of positions
RECURSIVE Orderings(_)
Orderings(S) ==
    IF S = {} THEN {<<>>}
    ELSE UNION {{<<x>> \o p : p \in Orderings(S \ {x})} : x \in S}

Descending(rows) ==
    \A i, j \in 1..Len(rows) : i < j => rows[i]["score"].num >= rows[j]["score"].num

\* df.sort_values('score', ascending=False): kind defaults to 'quicksort',
\* which pandas documents as not stable, so rows of equal score come out in
\* an order that depends on the numpy build and the frame's length
sort_values(df) ==
    {[columns |-> df.columns, rows |-> [i \in 1..Len(df.rows) |-> df.rows[p[i]]]] :
        p \in {q \in Orderings(1..Len(df.rows)) :
                 Descending([i \in 1..Len(df.rows) |-> df.rows[q[i]]])}}

score_prospects ==
    \E sorted \in sort_values(Scored(prospects)) :
        /\ pc = "api"
        /\ ret' = FrameRet(sorted)
        /\ Record("score_prospects", <<>>)
        /\ UNCHANGED <<prospects, files>>

(* ----------------------------- classifier ----------------------------- *)

dealer_keywords == {k_auto, k_car, k_dealer, k_motors, k_automotive}
buyer_keywords == {k_buyer, k_cash_for_cars, k_we_buy, k_wholesale}
shop_keywords == {k_body_shop, k_collision, k_repair}

t_Unknown == <<"U","n","k","n","o","w","n">>
t_AutoDealer == <<"A","u","t","o"," ","D","e","a","l","e","r">>
t_VehicleBuyer == <<"V","e","h","i","c","l","e"," ","B","u","y","e","r">>
t_BodyShop == <<"B","o","d","y"," ","S","h","o","p">>

\* df['name'].str.lower().fillna('') on one cell
name_lower(c) == IF c.kind = "str" THEN Lower(c.str) ELSE <<>>

\* df.loc[name_lower.str.contains('|'.join(keywords)), 'prospect_type'] = label
Label(df, keywords, label) ==
    [columns |-> df.columns,
     rows |-> [i \in 1..Len(df.rows) |->
                 IF ContainsAny(name_lower(df.rows[i]["name"]), keywords)
                 THEN [df.rows[i] EXCEPT !["prospect_type"] = Str(label)]
                 ELSE df.rows[i]]]

\* the three rules applied in the opposite order
ApplyRulesReversed(df) ==
    Label(Label(Label(df, shop_keywords, t_BodyShop),
                buyer_keywords, t_VehicleBuyer),
          dealer_keywords, t_AutoDealer)

\* the three rules, in the order the code applies them
ApplyRules(df) ==
    Label(Label(Label(df, dealer_keywords, t_AutoDealer),
                buyer_keywords, t_VehicleBuyer),
          shop_keywords, t_BodyShop)

Categorized(df) ==
    IF "name" \in df.columns
    THEN ApplyRules(SetColumn(df, "prospect_type", Str(t_Unknown)))
    ELSE SetColumn(df, "prospect_type", Str(t_Unknown))

categorize_prospects ==
    /\ pc = "api"
    /\ ret' = FrameRet(Categorized(prospects))
    /\ Record("categorize_prospects", <<>>)
    /\ UNCHANGED <<prospects, files>>

(* ------------------------- reporter / exporter ------------------------ *)

\* values of datetime.now()
Clock ==
    {[Y |-> "2024", m |-> "03", d |-> "01", H |-> "09", M |-> "30", S |-> "00", f |-> "000250"],
     [Y |-> "2024", m |-> "03", d |-> "01", H |-> "09", M |-> "30", S |-> "01", f |-> "000750"]}

\* datetime.strftime('%Y%m%d_%H%M%S')
strftime(t) == t.Y \o t.m \o t.d \o "_" \o t.H \o t.M \o t.S

\* datetime.isoformat()
isoformat(t) ==
    t.Y \o "-" \o t.m \o "-" \o t.d \o "T" \o t.H \o ":" \o t.M \o ":" \o t.S \o "." \o t.f

\* Config.OUTPUT_DIRECTORY
output_directory == "./output"

\* os.path.join(directory, filename), the filename relative
path_join(directory, filename) == directory \o "/" \o filename

Formats == {"csv", "excel", "json", "xml"}

\* the suffix each branch of export_prospects appends to filepath
Extension(format) ==
    CASE format = "csv" -> ".csv"
      [] format = "excel" -> ".xlsx"
      [] format = "json" -> ".json"

Filenames == {"None", "prospects"}

\* the filename export_prospects uses
export_filename(filename, now) ==
    IF filename = "None" THEN "vehicle_buyer_prospects_" \o strftime(now) ELSE filename

export_filepath(filename, now) ==
    path_join(output_directory, export_filename(filename, now))

PathRet(path) == [kind |-> "path", path |-> path]

\* an export that does not look at the store before writing
export_result_unguarded(df, filename, format, now, written) ==
    IF format \in {"csv", "excel", "json"} /\ ~written THEN Raised("OSError")
    ELSE PathRet(export_filepath(filename, now))

\* what export_prospects returns; written tells whether to_csv / to_excel /
\* to_json succeeded
export_result(df, filename, format, now, written) ==
    IF empty(df) THEN NoneRet
    ELSE IF format \in {"csv", "excel", "json"} /\ ~written THEN Raised("OSError")
    ELSE PathRet(export_filepath(filename, now))

\* the files export_prospects leaves on disk
export_files(df, filename, format, now, written) ==
    IF ~empty(df) /\ format \in {"csv", "excel", "json"} /\ written
    THEN {export_filepath(filename, now) \o Extension(format)}
    ELSE {}

export_prospects ==
    \E filename \in Filenames, format \in Formats, now \in Clock, written \in BOOLEAN :
        /\ pc = "api"
        /\ Cardinality(files \cup export_files(prospects, filename, format, now, written)) <= MaxFiles
        /\ ret' = export_result(prospects, filename, format, now, written)
        /\ files' = files \cup export_files(prospects, filename, format, now, written)
        /\ Record("export_prospects", [filename |-> filename, format |-> format])
        /\ UNCHANGED prospects

\* Python int and numpy.int64 are told apart: json.dumps accepts the first only
PyInt(n) == [type |-> "int", value |-> n]
NpInt64(n) == [type |-> "numpy.int64", value |-> n]

\* a count that records each value once
value_counts_distinct(df, col) ==
    [v \in {df.rows[i][col] : i \in {j \in 1..Len(df.rows) : notna(df.rows[j][col])}} |-> 1]

\* df[col].value_counts().to_dict(): missing values are not counted
value_counts(df, col) ==
    [v \in {df.rows[i][col] : i \in {j \in 1..Len(df.rows) : notna(df.rows[j][col])}} |->
        Cardinality({i \in 1..Len(df.rows) : df.rows[i][col] = v})]

\* df[col].notna().sum()
notna_sum(df, col) ==
    NpInt64(Cardinality({i \in 1..Len(df.rows) : notna(df.rows[i][col])}))

ReportHead(df, now) ==
    ("total_prospects" :> PyInt(len(df))) @@ ("timestamp" :> isoformat(now))

ReportSource(df) ==
    IF "source" \in df.columns THEN ("by_source" :> value_counts(df, "source")) ELSE <<>>

ReportType(df) ==
    IF "prospect_type" \in df.columns
    THEN ("by_type" :> value_counts(df, "prospect_type")) ELSE <<>>

ReportCompleteness(df) ==
    ("with_phone" :> IF "phone" \in df.columns THEN notna_sum(df, "phone") ELSE PyInt(0)) @@
    ("with_address" :> IF "address" \in df.columns THEN notna_sum(df, "address") ELSE PyInt(0))

\* the dictionary generate_report returns
Report(df, now) ==
    IF empty(df) THEN ReportHead(df, now)
    ELSE ReportHead(df, now) @@ ReportSource(df) @@ ReportType(df) @@ ReportCompleteness(df)

ReportRet(report) == [kind |-> "report", report |-> report]

generate_report ==
    \E now \in Clock :
        /\ pc = "api"
        /\ ret' = ReportRet(Report(prospects, now))
        /\ Record("generate_report", <<>>)
        /\ UNCHANGED <<prospects, files>>

(* ------------- the store under any use of its in-memory API ----------- *)

NoArgs == [mock_dmv |-> FALSE, yellowpages_only |-> FALSE, no_legal_notice |-> FALSE,
           output_format |-> "csv", credentials |-> "none", locations |-> <<>>]

Init ==
    /\ prospects = EmptyFrame
    /\ ret = NoneRet
    /\ call = NoCall
    /\ merged = NoMerges(EmptyFrame)
    /\ files = {}
    /\ pc = "api"
    /\ args = NoArgs
    /\ locs = <<>>
    /\ dmv = "none"
    /\ failures = {}

Next ==
    \/ add_yellowpages_data
    \/ add_dmv_data
    \/ filter_prospects
    \/ score_prospects
    \/ categorize_prospects
    \/ generate_report

Spec == Init /\ [][Next]_vars

(* ------------------ the exporter and the output directory -------------- *)

\* the stores a first merge into the fresh store yields
ExportStores == {after_add(EmptyFrame, df) : df \in Batches}

ExportInit ==
    /\ prospects \in ExportStores
    /\ ret = NoneRet
    /\ call = NoCall
    /\ merged = NoMerges(prospects)
    /\ files = {}
    /\ pc = "api"
    /\ args = NoArgs
    /\ locs = <<>>
    /\ dmv = "none"
    /\ failures = {}

ExportNext == export_prospects

ExportSpec == ExportInit /\ [][ExportNext]_vars

(* --------------- the in-memory API and the exporter together ----------- *)

\* a session works on the store in memory, or it exports the store it has
InMemory == call.name /= "export_prospects"
Exporting == call.name \in {"none", "export_prospects"}

FrameInit == ExportInit

FrameNext ==
    \/ InMemory /\ add_yellowpages_data
    \/ InMemory /\ add_dmv_data
    \/ InMemory /\ filter_prospects
    \/ InMemory /\ score_prospects
    \/ InMemory /\ categorize_prospects
    \/ InMemory /\ generate_report
    \/ Exporting /\ export_prospects

FrameSpec == FrameInit /\ [][FrameNext]_vars

(* ------------------------------ main.py ------------------------------- *)

\* what the environment holds of DMV_API_KEY, DMV_API_ENDPOINT and
\* DMV_AUTHORIZED_USER_ID: nothing, the first two, all three
Credentials == {"none", "no_user_id", "all"}

\* Config.validate_dmv_credentials
validate_dmv_credentials(credentials) == credentials /= "none"

\* DMVIntegration.__init__ raises ValueError unless all three are set
DMVIntegration_raises(credentials) == credentials /= "all"

\* --locations: the default Config.TARGET_LOCATIONS or one location
LocationLists == {<<l_Jax, l_StAug>>, <<l_Jax>>}

Arguments ==
    [mock_dmv : BOOLEAN, yellowpages_only : BOOLEAN, no_legal_notice : BOOLEAN,
     output_format : {"csv", "excel", "json"}, credentials : Credentials,
     locations : LocationLists]

\* frames search_multiple_locations can return: nothing found (or every
\* fetch failed and was logged), or listings with distinct phones
YPFrames == {EmptyFrame, YPFrameA, YPFrameB}

\* frames DMVIntegration.find_recent_buyers can return
RegFrames == {EmptyFrame, RegFrame}

MainInit ==
    /\ prospects = EmptyFrame
    /\ ret = NoneRet
    /\ call = NoCall
    /\ merged = NoMerges(EmptyFrame)
    /\ files = {}
    /\ pc = "legal_notice"
    /\ args \in Arguments
    /\ locs = args.locations
    /\ dmv = "none"
    /\ failures = {}

\* lines 114-119: the acknowledgment prompt
LegalNotice ==
    \E response \in {"yes", "no"} :
        /\ pc = "legal_notice"
        /\ pc' = IF args.no_legal_notice \/ response = "yes" THEN "phase1" ELSE "exit_legal"
        /\ UNCHANGED <<prospects, ret, call, merged, files, args, locs, dmv, failures>>

AfterPhase1 == IF args.yellowpages_only THEN "categorize" ELSE "phase2"

\* lines 135-145: the directory search, its exceptions caught and logged
Phase1 ==
    /\ pc = "phase1"
    /\ \/ \E yp_data \in YPFrames :
            /\ prospects' = after_add(prospects, yp_data)
            /\ UNCHANGED failures
       \/ /\ failures' = failures \cup {"yellowpages"}
          /\ UNCHANGED prospects
    /\ pc' = AfterPhase1
    /\ UNCHANGED <<ret, call, merged, files, args, locs, dmv>>

\* lines 153-169: choosing the registration-data client
Phase2Connect ==
    /\ pc = "phase2"
    /\ IF args.mock_dmv
       THEN dmv' = "mock" /\ pc' = "dmv_loop" /\ UNCHANGED failures
       ELSE IF ~validate_dmv_credentials(args.credentials)
       THEN /\ pc' = "exit_credentials"
            /\ failures' = failures \cup {"dmv_credentials"}
            /\ UNCHANGED dmv
       ELSE IF DMVIntegration_raises(args.credentials)
       THEN /\ pc' = "categorize"
            /\ failures' = failures \cup {"dmv_init"}
            /\ UNCHANGED dmv
       ELSE dmv' = "real" /\ pc' = "dmv_loop" /\ UNCHANGED failures
    /\ UNCHANGED <<prospects, ret, call, merged, files, args, locs>>

\* lines 172-178: one turn of the loop over the locations
Phase2Query ==
    /\ pc = "dmv_loop"
    /\ locs /= <<>>
    /\ \/ /\ dmv = "mock"
          /\ prospects' = after_add(prospects, MockFrame(Head(locs)))
          /\ UNCHANGED failures
       \/ /\ dmv = "real"
          /\ \E dmv_data \in RegFrames : prospects' = after_add(prospects, dmv_data)
          /\ UNCHANGED failures
       \/ /\ dmv = "real"
          /\ failures' = failures \cup {"dmv_query"}
          /\ UNCHANGED prospects
    /\ locs' = Tail(locs)
    /\ pc' = IF Tail(locs) = <<>> THEN "categorize" ELSE "dmv_loop"
    /\ UNCHANGED <<ret, call, merged, files, args, dmv>>

\* line 189: finder.prospects = finder.categorize_prospects()
Phase3Categorize ==
    /\ pc = "categorize"
    /\ prospects' = Categorized(prospects)
    /\ pc' = "score"
    /\ UNCHANGED <<ret, call, merged, files, args, locs, dmv, failures>>

\* line 192: finder.prospects = finder.score_prospects()
Phase3Score ==
    /\ pc = "score"
    /\ prospects' \in sort_values(Scored(prospects))
    /\ pc' = "report"
    /\ UNCHANGED <<ret, call, merged, files, args, locs, dmv, failures>>

\* json.dumps raises TypeError on a numpy.int64 value
json_dumps_raises(report) ==
    \E k \in DOMAIN report \cap {"total_prospects", "with_phone", "with_address"} :
        report[k].type = "numpy.int64"

\* lines 195-200: the report is built and printed; nothing in main catches
\* what json.dumps raises, so the handler at lines 243-245 ends the process
Phase3Report ==
    \E now \in Clock :
        /\ pc = "report"
        /\ ret' = ReportRet(Report(prospects, now))
        /\ pc' = IF json_dumps_raises(Report(prospects, now)) THEN "fatal" ELSE "export"
        /\ UNCHANGED <<prospects, call, merged, files, args, locs, dmv, failures>>

\* f"report_{output_file.split('_')[-1].split('.')[0]}" for the generated
\* filename: what follows the last '_' is %H%M%S, which holds no '.'
report_filename(now) == "report_" \o now.H \o now.M \o now.S

\* line 208: the first export; an exception, or None in place of a path
\* (output_file.split then raises), is caught at line 218
Phase4Export ==
    \E now \in Clock, written \in BOOLEAN :
        /\ pc = "export"
        /\ ret' = export_result(prospects, "None", args.output_format, now, written)
        /\ files' = files \cup export_files(prospects, "None", args.output_format, now, written)
        /\ call' = Call("export_prospects", [filename |-> "None", format |-> args.output_format, now |-> now])
        /\ pc' = IF ret'.kind = "path" THEN "export_report" ELSE "complete"
        /\ UNCHANGED <<prospects, merged, args, locs, dmv, failures>>

\* lines 212-216: the second export, as JSON
Phase4ExportReport ==
    \E now \in Clock, written \in BOOLEAN :
        /\ pc = "export_report"
        /\ ret' = export_result(prospects, report_filename(call.arg.now), "json", now, written)
        /\ files' = files \cup export_files(prospects, report_filename(call.arg.now), "json", now, written)
        /\ pc' = "complete"
        /\ UNCHANGED <<prospects, call, merged, args, locs, dmv, failures>>

MainNext ==
    \/ LegalNotice
    \/ Phase1
    \/ Phase2Connect
    \/ Phase2Query
    \/ Phase3Categorize
    \/ Phase3Score
    \/ Phase3Report
    \/ Phase4Export
    \/ Phase4ExportReport

MainSpec == MainInit /\ [][MainNext]_vars

(* ------------------------------ properties ---------------------------- *)

\* C1: after merge(B1); merge(B2) of non-empty batches on a store S, the
\* store holds S's records, then B1's, then B2's, each in order, and its
\* length is len(S) + len(B1) + len(B2).
C1_MergesAppendInOrder ==
    Len(merged.batches) >= 2 =>
        /\ prospects.rows =
              merged.base.rows \o merged.batches[1].rows \o merged.batches[2].rows
        /\ len(prospects) =
              len(merged.base) + len(merged.batches[1]) + len(merged.batches[2])

\* two different batches were merged, one by each method, into a store that
\* already held records
C1_Witness ==
    /\ Len(merged.batches) >= 2
    /\ len(merged.base) > 0
    /\ merged.batches[1] /= merged.batches[2]
    /\ merged.base.rows /= merged.batches[1].rows
    /\ call.name = "add_dmv_data"

\* the positions of rows in descending order of score, rows of equal score
\* in their original order
StableOrder(rows) ==
    CHOOSE p \in Orderings(1..Len(rows)) :
        /\ Descending([i \in 1..Len(rows) |-> rows[p[i]]])
        /\ \A i, j \in 1..Len(rows) :
              (i < j /\ rows[p[i]]["score"] = rows[p[j]]["score"]) => p[i] < p[j]

\* C2: score_prospects returns the records by score descending, records of
\* equal score in the relative order they had before the sort.
C2_SortIsStable ==
    (call.name = "score_prospects" /\ ret.kind = "frame") =>
        ret.df.rows = [i \in 1..len(prospects) |->
                         Scored(prospects).rows[StableOrder(Scored(prospects).rows)[i]]]

\* C3: export_prospects on a non-empty store with a format other than
\* 'csv', 'excel' and 'json' fails with an error; it returns no path.
C3_UnsupportedFormatFails ==
    (/\ call.name = "export_prospects"
     /\ ~empty(prospects)
     /\ call.arg.format \notin {"csv", "excel", "json"}) => ret.kind = "raised"

\* 1 when the condition holds, else 0
Indicator(b) == IF b THEN 1 ELSE 0

\* the score the scoring rules give a record of the frame df
ExpectedScore(df, r) ==
    10 * Indicator("phone" \in df.columns /\ r["phone"].kind /= "nan")
    + 5 * Indicator("website" \in df.columns /\ r["website"].kind /= "nan")
    + 5 * Indicator("address" \in df.columns /\ r["address"].kind /= "nan")
    + 20 * Indicator("source" \in df.columns /\ r["source"].kind = "str"
                     /\ \E i \in 1..Len(r["source"].str) :
                           /\ i + 2 <= Len(r["source"].str)
                           /\ r["source"].str[i] = "D"
                           /\ r["source"].str[i + 1] = "M"
                           /\ r["source"].str[i + 2] = "V")

\* the number of positions of rows that hold r
Occurrences(rows, r) == Cardinality({i \in 1..Len(rows) : rows[i] = r})

\* rows with the score blanked
WithoutScore(rows) == [i \in 1..Len(rows) |-> [rows[i] EXCEPT !["score"] = NaN]]

\* C4: score_prospects gives every record the score 10*(phone present)
\* + 5*(website present) + 5*(address present) + 20*(source contains 'DMV'),
\* an absent column counting for nothing; the score lies in 0..40, replaces
\* any earlier score, and the scored records are the store's records.
C4_ScoreIsWeightedSum ==
    (call.name = "score_prospects" /\ ret.kind = "frame") =>
        /\ len(ret.df) = len(prospects)
        /\ \A i \in 1..len(ret.df) :
              /\ ret.df.rows[i]["score"] = Num(ExpectedScore(prospects, ret.df.rows[i]))
              /\ ret.df.rows[i]["score"].num \in 0..40
              /\ Occurrences(WithoutScore(ret.df.rows), WithoutScore(ret.df.rows)[i]) =
                    Occurrences(WithoutScore(prospects.rows), WithoutScore(ret.df.rows)[i])

\* a record with a phone, no website, an address and source 'MOCK_DMV' that
\* carried the score 99 has been scored 35
C4_Witness ==
    /\ call.name = "score_prospects"
    /\ ret.kind = "frame"
    /\ \E i \in 1..len(ret.df), j \in 1..len(prospects) :
          /\ prospects.rows[j]["score"] = Num(99)
          /\ ret.df.rows[i] = [prospects.rows[j] EXCEPT !["score"] = Num(35)]
          /\ ret.df.rows[i]["phone"].kind = "str"
          /\ ret.df.rows[i]["website"].kind = "nan"
          /\ ret.df.rows[i]["address"].kind = "str"
          /\ ret.df.rows[i]["source"] = Str(s_MOCK_DMV)

\* the label the classification rules give a cell of the name column
ExpectedType(df, c) ==
    IF "name" \notin df.columns \/ c.kind /= "str" THEN t_Unknown
    ELSE IF \E k \in {k_body_shop, k_collision, k_repair} : Contains(Lower(c.str), k)
    THEN t_BodyShop
    ELSE IF \E k \in {k_buyer, k_cash_for_cars, k_we_buy, k_wholesale} : Contains(Lower(c.str), k)
    THEN t_VehicleBuyer
    ELSE IF \E k \in {k_auto, k_car, k_dealer, k_motors, k_automotive} : Contains(Lower(c.str), k)
    THEN t_AutoDealer
    ELSE t_Unknown

\* C5: categorize_prospects labels every record from its case-folded name:
\* 'Body Shop' on a body-shop keyword, else 'Vehicle Buyer' on a buyer
\* keyword, else 'Auto Dealer' on a dealer keyword, else 'Unknown'; a missing
\* or empty name, or a table without a name column, gives 'Unknown'.
C5_LastMatchingRuleWins ==
    (call.name = "categorize_prospects" /\ ret.kind = "frame") =>
        /\ len(ret.df) = len(prospects)
        /\ \A i \in 1..len(ret.df) :
              ret.df.rows[i] =
                [prospects.rows[i] EXCEPT !["prospect_type"] =
                    Str(ExpectedType(prospects, prospects.rows[i]["name"]))]

\* 'ABC Auto Body Shop', which matches the dealer and the body-shop rules,
\* has been labelled 'Body Shop', next to a record with a missing name
C5_Witness ==
    /\ call.name = "categorize_prospects"
    /\ ret.kind = "frame"
    /\ \E i, j \in 1..len(ret.df) :
          /\ ret.df.rows[i]["name"] = Str(n_AbcAutoBodyShop)
          /\ ret.df.rows[i]["prospect_type"] = Str(t_BodyShop)
          /\ ret.df.rows[j]["name"] = NaN
          /\ ret.df.rows[j]["prospect_type"] = Str(t_Unknown)

\* C6: for any store, filter_prospects with 'min_records' in the criteria
\* returns the first record of every distinct (name, phone) pair, the
\* survivors in their original order, no more records than the store holds.
C6_DedupKeepsFirstOfEachPair ==
    (call.name = "filter_prospects" /\ call.arg = "min_records") =>
        /\ ret.kind = "frame"
        /\ len(ret.df) <= len(prospects)
        /\ \A i \in 1..len(prospects) :
              \E k \in 1..len(ret.df) :
                  /\ ret.df.rows[k]["name"] = prospects.rows[i]["name"]
                  /\ ret.df.rows[k]["phone"] = prospects.rows[i]["phone"]
        /\ \A k, l \in 1..len(ret.df) :
              k < l =>
                  \/ ret.df.rows[k]["name"] /= ret.df.rows[l]["name"]
                  \/ ret.df.rows[k]["phone"] /= ret.df.rows[l]["phone"]
        /\ \E f \in [1..len(ret.df) -> 1..len(prospects)] :
              /\ \A k, l \in 1..len(ret.df) : k < l => f[k] < f[l]
              /\ \A k \in 1..len(ret.df) :
                    /\ ret.df.rows[k] = prospects.rows[f[k]]
                    /\ \A j \in 1..(f[k] - 1) :
                          \/ prospects.rows[j]["name"] /= prospects.rows[f[k]]["name"]
                          \/ prospects.rows[j]["phone"] /= prospects.rows[f[k]]["phone"]

\* the states in which the process has ended
Halted == {"exit_legal", "exit_credentials", "fatal", "complete"}

\* C7: no failure of the directory search or of the registration-data
\* source ends a run that passed the legal acknowledgment before the export
\* phase: a run in which one occurred ends only after the export.
C7_FailuresNeverEndTheRunEarly ==
    (failures /= {} /\ pc \in Halted) => pc = "complete"

\* C8: merge, filter_prospects, categorize_prospects, score_prospects and
\* generate_report complete without an error in every store state, the empty
\* store and a store without a name or phone column included.
C8_NoOperationRaises ==
    call.name \in {"add_yellowpages_data", "add_dmv_data", "filter_prospects",
                   "categorize_prospects", "score_prospects", "generate_report"}
        => ret.kind /= "raised"

\* C9: in every store state the report holds with_phone and with_address,
\* the numbers of records with a phone and with an address, 0 when the
\* column is absent.
C9_ReportCountsPhoneAndAddress ==
    (call.name = "generate_report" /\ ret.kind = "report") =>
        /\ {"with_phone", "with_address"} \subseteq DOMAIN ret.report
        /\ ret.report["with_phone"].value =
              Cardinality({i \in 1..len(prospects) :
                             "phone" \in prospects.columns /\ prospects.rows[i]["phone"].kind /= "nan"})
        /\ ret.report["with_address"].value =
              Cardinality({i \in 1..len(prospects) :
                             "address" \in prospects.columns /\ prospects.rows[i]["address"].kind /= "nan"})

\* C10: when export_prospects writes a file, the path it returns is the
\* path of that file, so it names a file of the output directory.
C10_ReturnedPathIsTheFile ==
    (/\ call.name = "export_prospects"
     /\ ret.kind = "path"
     /\ call.arg.format \in {"csv", "excel", "json"}) => ret.path \in files

\* C11: every record the pipeline admits into the store has a name: after
\* any merges made by main, no store record has a missing or empty name.
C11_EveryRecordHasAName ==
    \A i \in 1..len(prospects) :
        /\ "name" \in prospects.columns
        /\ prospects.rows[i]["name"].kind = "str"
        /\ prospects.rows[i]["name"].str /= <<>>

\* C12: export_prospects on an empty store does nothing: whatever the
\* filename and the format, it returns None, writes no file and leaves the
\* store as it is.
C12_EmptyExportIsNoOp ==
    [][(empty(prospects) /\ call'.name = "export_prospects") =>
          /\ ret' = NoneRet
          /\ files' = files
          /\ prospects' = prospects]_vars

\* the empty store has been exported with a generated filename and a format
\* the exporter does not know
C12_Witness ==
    /\ call.name = "export_prospects"
    /\ empty(prospects)
    /\ call.arg.filename = "None"
    /\ call.arg.format = "xml"
    /\ ret = NoneRet
    /\ files = {}

\* the values of a column that are not missing
Present(df, col) ==
    {df.rows[i][col] : i \in {j \in 1..len(df) : df.rows[j][col].kind /= "nan"}}

\* the report's breakdown under key is there exactly when the store has the
\* column, and gives every value of the column its number of records
Breakdown(report, key, df, col) ==
    /\ key \in DOMAIN report <=> col \in df.columns
    /\ key \in DOMAIN report =>
          /\ DOMAIN report[key] = Present(df, col)
          /\ \A v \in Present(df, col) :
                report[key][v] = Cardinality({i \in 1..len(df) : df.rows[i][col] = v})

\* C13: for a non-empty store generate_report gives total_prospects = the
\* number of records, by_source = the number of records of every distinct
\* source (no such key without a source column) and by_type the same for
\* prospect_type.
C13_ReportCountsRecords ==
    (ret.kind = "report" /\ ~empty(prospects)) =>
        /\ ret.report["total_prospects"].value = len(prospects)
        /\ Breakdown(ret.report, "by_source", prospects, "source")
        /\ Breakdown(ret.report, "by_type", prospects, "prospect_type")

\* the report of 2 'YellowPages' records and 1 'MOCK_DMV' record, 2 of the 3
\* with a phone
C13_Witness ==
    /\ ret.kind = "report"
    /\ len(prospects) = 3
    /\ ret.report["total_prospects"].value = 3
    /\ ret.report["by_source"] = (Str(s_YellowPages) :> 2) @@ (Str(s_MOCK_DMV) :> 1)
    /\ ret.report["with_phone"].value = 2
    /\ "by_type" \in DOMAIN ret.report

\* the methods that read the store
Readers == {"filter_prospects", "categorize_prospects", "score_prospects",
            "generate_report", "export_prospects"}

\* the methods that merge a batch
Mergers == {"add_yellowpages_data", "add_dmv_data"}

\* C14: only a merge changes the store: filter_prospects,
\* categorize_prospects(), score_prospects(), generate_report and
\* export_prospects leave its records, their order and their fields as they
\* are, so does the merge of an empty batch, and the store never gets shorter.
C14_OnlyMergeChangesTheStore ==
    [][/\ call'.name \in Readers => prospects' = prospects
       /\ (call'.name \in Mergers /\ empty(call'.arg)) => prospects' = prospects
       /\ len(prospects') >= len(prospects)]_vars

\* a deduplicating filter returned fewer records than the store, which
\* still holds them all
C14_Witness ==
    /\ call.name = "filter_prospects"
    /\ call.arg = "min_records"
    /\ ret.kind = "frame"
    /\ len(ret.df) < len(prospects)
====
